---- MODULE Spec2Model ----
(***************************************************************************)
(* Generational arenas of the gen_arena crate: the growable Arena          *)
(* (src/src/arena.rs) and the fixed-capacity SArena (src/src/sarena.rs).   *)
(* One arena is constructed in Init (kind says which one) and the public   *)
(* operations are applied to it one call at a time (Spec); in SpecShared   *)
(* the steps of SArena::try_insert calls made through &self interleave.    *)
(***************************************************************************)
EXTENDS Integers, FiniteSets

\* ------------------------------------------------------------------------
\* Bounds of the model
\* ------------------------------------------------------------------------
\* largest number of cells the growable arena's Vec is allowed to reach
MaxCells == 2
\* largest generation a cell is allowed to reach
MaxGen == 2
\* values stored in the arena are 1..MaxVal
MaxVal == 2
\* the fixed-capacity arenas constructed are SArena<T, N> for N in 0..MaxN
MaxN == 2
\* number of call sites that share one SArena
MaxSites == 2

Vals == 1..MaxVal

\* ------------------------------------------------------------------------
\* Data
\* ------------------------------------------------------------------------
\* Option<X>: None is the empty set, Some(x) the singleton {x}
None == {}
Some(x) == {x}
Unwrap(o) == CHOOSE x \in o : TRUE

\* enum ArenaCell<T>
Allocated(v, g) == [tag |-> "Allocated", val |-> v, generation |-> g]
Freed(n, g) == [tag |-> "Freed", next |-> n, generation |-> g]

\* struct ArenaIdx<T> / SArenaIdx<T>
ArenaIdx(i, g) == [index |-> i, generation |-> g]

\* Result<ArenaIdx<T>, T>
Ok(h) == [tag |-> "Ok", idx |-> h]
Err(v) == [tag |-> "Err", val |-> v]

\* the handles a caller can build with ArenaIdx::new; the largest index is
\* outside every storage of the model
MaxIndex == IF MaxCells > MaxN THEN MaxCells ELSE MaxN
Handles == {ArenaIdx(i, g) : i \in 0..MaxIndex, g \in 0..MaxGen}

VARIABLES
    kind,       \* "Arena" or "SArena": the container that was constructed
    cells,      \* self.cells, a function from 0..len-1 to ArenaCell
    freed,      \* self.freed: Option<usize>
    num,        \* self.num
    panicked,   \* TRUE once a call has panicked
    last,       \* the last call: its name, arguments and result
    issued,     \* every handle insert/try_insert has returned so far
    removed,    \* every issued handle remove has been called with
    cleared,    \* every handle issued before some call of clear
    calls       \* the calls of SArena::try_insert in progress through &self, by call site

vars == <<kind, cells, freed, num, panicked, last, issued, removed, cleared, calls>>

\* self.cells.len()
Len(c) == Cardinality(DOMAIN c)

\* the container as one value
Self == [cells |-> cells, freed |-> freed, num |-> num]

\* ------------------------------------------------------------------------
\* Constructors
\* ------------------------------------------------------------------------
\* Arena::new
Arena_new == [cells |-> [i \in {} |-> 0], freed |-> None, num |-> 0]

\* new that chains the cells backwards, from the last cell down to cell 0
SArena_new_Backwards(N) ==
    [cells |-> [i \in 0..(N-1) |->
                    IF i > 0 THEN Freed(Some(i - 1), 0)
                             ELSE Freed(None, 0)],
     freed |-> Some(N - 1),
     num |-> 0]

\* SArena::<T, N>::new
SArena_new(N) ==
    [cells |-> [i \in 0..(N-1) |->
                    IF i < N - 1 THEN Freed(Some(i + 1), 0)
                                 ELSE Freed(None, 0)],
     freed |-> Some(0),
     num |-> 0]

\* ------------------------------------------------------------------------
\* Lookups
\* ------------------------------------------------------------------------
\* get without the comparison of generations
Arena_get_AnyGeneration(s, index) ==
    IF s.cells[index.index].tag = "Allocated"
    THEN Some(s.cells[index.index].val)
    ELSE None

\* Arena::get, for index.index inside the storage
Arena_get(s, index) ==
    IF s.cells[index.index].tag = "Allocated"
    THEN IF s.cells[index.index].generation = index.generation
         THEN Some(s.cells[index.index].val)
         ELSE None
    ELSE None

\* Arena::get_mut, for index.index inside the storage
Arena_get_mut(s, index) ==
    IF s.cells[index.index].tag = "Allocated"
    THEN IF s.cells[index.index].generation = index.generation
         THEN Some(s.cells[index.index].val)
         ELSE None
    ELSE None

\* SArena::get, for index.index inside the storage
SArena_get(s, index) ==
    IF s.cells[index.index].tag = "Allocated"
    THEN IF s.cells[index.index].generation = index.generation
         THEN Some(s.cells[index.index].val)
         ELSE None
    ELSE None

\* SArena::get_mut, for index.index inside the storage
SArena_get_mut(s, index) ==
    IF s.cells[index.index].tag = "Allocated"
    THEN IF s.cells[index.index].generation = index.generation
         THEN Some(s.cells[index.index].val)
         ELSE None
    ELSE None

\* ------------------------------------------------------------------------
\* Mutations, as functions from the container to the container and the
\* value returned ("Panic" when the call panics; the container is then
\* left as it was when the panic was raised)
\* ------------------------------------------------------------------------
Panic == [tag |-> "Panic"]
Unit == [tag |-> "Unit"]

\* (Option<&mut T>, Option<&mut T>)
Pair(r0, r1) == [tag |-> "Pair", r0 |-> r0, r1 |-> r1]

\* get2_mut that hands out a reference for each of two equal handles
Arena_get2_mut_same_index_Aliasing(s, i0, i1) ==
    IF i0.index \notin DOMAIN s.cells
    THEN Panic
    ELSE IF i0.generation = i1.generation
         THEN Pair(Arena_get_mut(s, i0), Arena_get_mut(s, i1))
         ELSE IF i0.generation > i1.generation
              THEN Pair(Arena_get_mut(s, i0), None)
              ELSE Pair(None, Arena_get_mut(s, i1))

\* Arena::get2_mut when both handles have the same index; self.get_mut(index)
\* panics when index.index is outside self.cells
Arena_get2_mut_same_index(s, i0, i1) ==
    IF i0.generation = i1.generation
    THEN Panic
    ELSE IF i0.generation > i1.generation
         THEN IF i0.index \notin DOMAIN s.cells THEN Panic
              ELSE Pair(Arena_get_mut(s, i0), None)
         ELSE IF i1.index \notin DOMAIN s.cells THEN Panic
              ELSE Pair(None, Arena_get_mut(s, i1))

\* get2_mut that takes the first cell from the lower half of the split and the
\* second from the upper half, whichever index is the larger
Arena_get2_mut_split_Unordered(s, i0, i1) ==
    LET lo == IF i0.index < i1.index THEN i0.index ELSE i1.index
        hi == IF i0.index > i1.index THEN i0.index ELSE i1.index
        cell0 == s.cells[lo]
        cell1 == s.cells[hi]
    IN Pair(IF cell0.tag = "Allocated"
            THEN IF i0.generation = cell0.generation THEN Some(cell0.val) ELSE None
            ELSE None,
            IF cell1.tag = "Allocated"
            THEN IF i1.generation = cell1.generation THEN Some(cell1.val) ELSE None
            ELSE None)

\* Arena::get2_mut when the handles have different indices inside self.cells:
\* the two cells are taken from the two halves of self.cells.split_at_mut
Arena_get2_mut_split(s, i0, i1) ==
    LET len == Len(s.cells)
        mid == IF i0.index > i1.index THEN i0.index ELSE i1.index
        split0 == [j \in 0..(mid - 1) |-> s.cells[j]]
        split1 == [j \in 0..(len - mid - 1) |-> s.cells[mid + j]]
        cell0 == IF i0.index < i1.index THEN split0[i0.index] ELSE split1[0]
        cell1 == IF i0.index < i1.index THEN split1[0] ELSE split0[i1.index]
    IN Pair(IF cell0.tag = "Allocated"
            THEN IF i0.generation = cell0.generation THEN Some(cell0.val) ELSE None
            ELSE None,
            IF cell1.tag = "Allocated"
            THEN IF i1.generation = cell1.generation THEN Some(cell1.val) ELSE None
            ELSE None)

\* Arena::get2_mut; a reference is Some of the value it points to
Arena_get2_mut(s, indices) ==
    LET i0 == indices[1]
        i1 == indices[2]
        len == Len(s.cells)
    IN
    IF i0.index = i1.index
    THEN Arena_get2_mut_same_index(s, i0, i1)
    ELSE IF i0.index >= len
         THEN IF i1.index \notin DOMAIN s.cells THEN Panic
              ELSE Pair(None, Arena_get_mut(s, i1))
         ELSE IF i1.index >= len
              THEN IF i0.index \notin DOMAIN s.cells THEN Panic
                   ELSE Pair(Arena_get_mut(s, i0), None)
              ELSE Arena_get2_mut_split(s, i0, i1)

\* SArena::get2_mut; a reference is Some of the value it points to
SArena_get2_mut(s, indices) ==
    LET i0 == indices[1]
        i1 == indices[2]
        len == Len(s.cells)
        \* self.get_mut(index), which panics when index.index is outside self.cells
        get_mut_0 == SArena_get_mut(s, i0)
        get_mut_1 == SArena_get_mut(s, i1)
    IN
    IF i0.index = i1.index
    THEN IF i0.generation = i1.generation
         THEN Panic
         ELSE IF i0.generation > i1.generation
              THEN IF i0.index \notin DOMAIN s.cells THEN Panic ELSE Pair(get_mut_0, None)
              ELSE IF i1.index \notin DOMAIN s.cells THEN Panic ELSE Pair(None, get_mut_1)
    ELSE IF i0.index >= len
         THEN IF i1.index \notin DOMAIN s.cells THEN Panic ELSE Pair(None, get_mut_1)
         ELSE IF i1.index >= len
              THEN IF i0.index \notin DOMAIN s.cells THEN Panic ELSE Pair(get_mut_0, None)
              ELSE LET mid == IF i0.index > i1.index THEN i0.index ELSE i1.index
                       \* self.cells.split_at_mut(mid)
                       split0 == [j \in 0..(mid - 1) |-> s.cells[j]]
                       split1 == [j \in 0..(len - mid - 1) |-> s.cells[mid + j]]
                       cell0 == IF i0.index < i1.index THEN split0[i0.index] ELSE split1[0]
                       cell1 == IF i0.index < i1.index THEN split1[0] ELSE split0[i1.index]
                   IN Pair(IF cell0.tag = "Allocated"
                           THEN IF i0.generation = cell0.generation
                                THEN Some(cell0.val) ELSE None
                           ELSE None,
                           IF cell1.tag = "Allocated"
                           THEN IF i1.generation = cell1.generation
                                THEN Some(cell1.val) ELSE None
                           ELSE None)

\* Arena::reserve: Vec::reserve makes room for more cells and leaves the
\* cells and their number as they are; the capacity of the Vec, on which no
\* other operation depends, is not part of the container's value here
Arena_reserve(s, additional) == [self |-> s, out |-> Unit]

\* SArena::capacity: the const parameter N, the length of self.cells
SArena_capacity(s) == Len(s.cells)

\* SArena::num
SArena_num(s) == s.num

\* Arena::gen, for an index inside self.cells
Arena_gen(s, index) == s.cells[index].generation

\* SArena::gen, for an index inside self.cells
SArena_gen(s, index) == s.cells[index].generation

\* get_any that returns the value of a cell of the first generation only
Arena_get_any_FirstGeneration(s, index) ==
    IF s.cells[index].tag = "Allocated"
    THEN IF s.cells[index].generation = 0 THEN Some(s.cells[index].val) ELSE None
    ELSE None

\* Arena::get_any, for an index inside self.cells
Arena_get_any(s, index) ==
    IF s.cells[index].tag = "Allocated" THEN Some(s.cells[index].val) ELSE None

\* Arena::get_any_mut, for an index inside self.cells
Arena_get_any_mut(s, index) ==
    IF s.cells[index].tag = "Allocated" THEN Some(s.cells[index].val) ELSE None

\* SArena::get_any, for an index inside self.cells
SArena_get_any(s, index) ==
    IF s.cells[index].tag = "Allocated" THEN Some(s.cells[index].val) ELSE None

\* SArena::get_any_mut, for an index inside self.cells
SArena_get_any_mut(s, index) ==
    IF s.cells[index].tag = "Allocated" THEN Some(s.cells[index].val) ELSE None

\* Iter::next that gives every handle the generation 0
Iter_item_FirstGeneration(i, cell) == <<ArenaIdx(i, 0), cell.val>>

\* the item Iter::next returns for the Allocated cell at position i
Iter_item(i, cell) == <<ArenaIdx(i, cell.generation), cell.val>>

\* Arena::iter: an iterator is the cells it enumerates and its position
Arena_iter(s) == [cells |-> s.cells, pos |-> 0]

RECURSIVE Iter_next(_)
\* Iter::next: the item (None at the end) and the iterator after the call
Iter_next(it) ==
    IF it.pos \notin DOMAIN it.cells
    THEN [item |-> None, iter |-> it]
    ELSE LET cell == it.cells[it.pos]
             rest == [it EXCEPT !.pos = @ + 1]
         IN IF cell.tag = "Freed"
            THEN Iter_next(rest)
            ELSE [item |-> Some(Iter_item(it.pos, cell)), iter |-> rest]

\* Arena::keys and Arena::values wrap Arena::iter
Arena_keys(s) == [iter |-> Arena_iter(s)]
Arena_values(s) == [iter |-> Arena_iter(s)]

\* KeyIter::next
KeyIter_next(it) ==
    LET r == Iter_next(it.iter) IN
    [item |-> {x[1] : x \in r.item}, iter |-> [iter |-> r.iter]]

\* ValueIter::next
ValueIter_next(it) ==
    LET r == Iter_next(it.iter) IN
    [item |-> {x[2] : x \in r.item}, iter |-> [iter |-> r.iter]]

\* the sequence that starts with x and goes on with seq
Cons(x, seq) == [k \in 1..(Len(seq) + 1) |-> IF k = 1 THEN x ELSE seq[k - 1]]

RECURSIVE Iter_collect(_)
\* the items a for loop over Arena::iter gets: Iter::next is called until it
\* returns None
Iter_collect(it) ==
    LET r == Iter_next(it) IN
    IF r.item = None THEN <<>> ELSE Cons(Unwrap(r.item), Iter_collect(r.iter))

RECURSIVE KeyIter_collect(_)
\* the items a for loop over Arena::keys gets
KeyIter_collect(it) ==
    LET r == KeyIter_next(it) IN
    IF r.item = None THEN <<>> ELSE Cons(Unwrap(r.item), KeyIter_collect(r.iter))

RECURSIVE ValueIter_collect(_)
\* the items a for loop over Arena::values gets
ValueIter_collect(it) ==
    LET r == ValueIter_next(it) IN
    IF r.item = None THEN <<>> ELSE Cons(Unwrap(r.item), ValueIter_collect(r.iter))

\* try_insert that leaves the free-list head on the cell it claims
Arena_try_insert_NoRelink(s, v) ==
    IF s.freed # None
    THEN LET i == Unwrap(s.freed) IN
         IF i \notin DOMAIN s.cells
         THEN [self |-> s, out |-> Panic]
         ELSE IF s.cells[i].tag = "Freed"
              THEN [self |-> [cells |-> [s.cells EXCEPT
                                           ![i] = Allocated(v, s.cells[i].generation)],
                              freed |-> s.freed,
                              num |-> s.num + 1],
                    out |-> Ok(ArenaIdx(i, s.cells[i].generation))]
              ELSE [self |-> s, out |-> Err(v)]
    ELSE [self |-> [cells |-> [i \in 0..Len(s.cells) |->
                                  IF i < Len(s.cells) THEN s.cells[i]
                                                      ELSE Allocated(v, 0)],
                    freed |-> s.freed,
                    num |-> s.num + 1],
          out |-> Ok(ArenaIdx(Len(s.cells), 0))]

\* try_insert that hands the value back when the free list is empty
Arena_try_insert_NoGrow(s, v) ==
    IF s.freed # None
    THEN LET i == Unwrap(s.freed) IN
         IF i \notin DOMAIN s.cells
         THEN [self |-> s, out |-> Panic]
         ELSE IF s.cells[i].tag = "Freed"
              THEN [self |-> [cells |-> [s.cells EXCEPT
                                           ![i] = Allocated(v, s.cells[i].generation)],
                              freed |-> s.cells[i].next,
                              num |-> s.num + 1],
                    out |-> Ok(ArenaIdx(i, s.cells[i].generation))]
              ELSE [self |-> s, out |-> Err(v)]
    ELSE [self |-> s, out |-> Err(v)]

\* try_insert returning a handle of the next generation
Arena_try_insert_NextGen(s, v) ==
    IF s.freed # None
    THEN LET i == Unwrap(s.freed) IN
         IF i \notin DOMAIN s.cells
         THEN [self |-> s, out |-> Panic]
         ELSE IF s.cells[i].tag = "Freed"
              THEN [self |-> [cells |-> [s.cells EXCEPT
                                           ![i] = Allocated(v, s.cells[i].generation)],
                              freed |-> s.cells[i].next,
                              num |-> s.num + 1],
                    out |-> Ok(ArenaIdx(i, s.cells[i].generation + 1))]
              ELSE [self |-> s, out |-> Err(v)]
    ELSE [self |-> [cells |-> [i \in 0..Len(s.cells) |->
                                  IF i < Len(s.cells) THEN s.cells[i]
                                                      ELSE Allocated(v, 0)],
                    freed |-> s.freed,
                    num |-> s.num + 1],
          out |-> Ok(ArenaIdx(Len(s.cells), 0))]

\* try_insert that, with an empty free list and cells in storage, writes the
\* value into cell 0 instead of pushing a new cell
Arena_try_insert_ReuseFirst(s, v) ==
    IF s.freed # None
    THEN LET i == Unwrap(s.freed) IN
         IF i \notin DOMAIN s.cells
         THEN [self |-> s, out |-> Panic]
         ELSE IF s.cells[i].tag = "Freed"
              THEN [self |-> [cells |-> [s.cells EXCEPT
                                           ![i] = Allocated(v, s.cells[i].generation)],
                              freed |-> s.cells[i].next,
                              num |-> s.num + 1],
                    out |-> Ok(ArenaIdx(i, s.cells[i].generation))]
              ELSE [self |-> s, out |-> Err(v)]
    ELSE IF Len(s.cells) > 0
         THEN [self |-> [cells |-> [s.cells EXCEPT
                                      ![0] = Allocated(v, s.cells[0].generation)],
                         freed |-> s.freed,
                         num |-> s.num],
               out |-> Ok(ArenaIdx(0, s.cells[0].generation))]
         ELSE [self |-> [cells |-> [i \in 0..0 |-> Allocated(v, 0)],
                         freed |-> s.freed,
                         num |-> s.num + 1],
               out |-> Ok(ArenaIdx(0, 0))]

\* Arena::try_insert
Arena_try_insert(s, v) ==
    IF s.freed # None
    THEN LET i == Unwrap(s.freed) IN
         IF i \notin DOMAIN s.cells
         THEN [self |-> s, out |-> Panic]
         ELSE IF s.cells[i].tag = "Freed"
              THEN [self |-> [cells |-> [s.cells EXCEPT
                                           ![i] = Allocated(v, s.cells[i].generation)],
                              freed |-> s.cells[i].next,
                              num |-> s.num + 1],
                    out |-> Ok(ArenaIdx(i, s.cells[i].generation))]
              ELSE [self |-> s, out |-> Err(v)]
    ELSE [self |-> [cells |-> [i \in 0..Len(s.cells) |->
                                  IF i < Len(s.cells) THEN s.cells[i]
                                                      ELSE Allocated(v, 0)],
                    freed |-> s.freed,
                    num |-> s.num + 1],
          out |-> Ok(ArenaIdx(Len(s.cells), 0))]

\* try_insert that starts the generation of the cell it claims over at 0
SArena_try_insert_FirstGeneration(s, v) ==
    IF s.freed # None
    THEN LET i == Unwrap(s.freed) IN
         IF i \notin DOMAIN s.cells
         THEN [self |-> s, out |-> Panic]
         ELSE IF s.cells[i].tag = "Freed"
              THEN [self |-> [cells |-> [s.cells EXCEPT ![i] = Allocated(v, 0)],
                              freed |-> s.cells[i].next,
                              num |-> s.num + 1],
                    out |-> Ok(ArenaIdx(i, 0))]
              ELSE [self |-> s, out |-> Err(v)]
    ELSE [self |-> s, out |-> Err(v)]

\* SArena::try_insert
SArena_try_insert(s, v) ==
    IF s.freed # None
    THEN LET i == Unwrap(s.freed) IN
         IF i \notin DOMAIN s.cells
         THEN [self |-> s, out |-> Panic]
         ELSE IF s.cells[i].tag = "Freed"
              THEN [self |-> [cells |-> [s.cells EXCEPT
                                           ![i] = Allocated(v, s.cells[i].generation)],
                              freed |-> s.cells[i].next,
                              num |-> s.num + 1],
                    out |-> Ok(ArenaIdx(i, s.cells[i].generation))]
              ELSE [self |-> s, out |-> Err(v)]
    ELSE [self |-> s, out |-> Err(v)]

\* Arena::insert
Arena_insert(s, v) ==
    LET r == Arena_try_insert(s, v) IN
    IF r.out.tag = "Ok" THEN r ELSE [self |-> r.self, out |-> Panic]

\* SArena::insert
SArena_insert(s, v) ==
    LET r == SArena_try_insert(s, v) IN
    IF r.out.tag = "Ok" THEN r ELSE [self |-> r.self, out |-> Panic]

\* remove that takes one from num also when the cell is Freed
Arena_remove_AlwaysDecrement(s, index) ==
    IF index.index \notin DOMAIN s.cells
    THEN [self |-> s, out |-> Panic]
    ELSE IF s.cells[index.index].tag = "Allocated"
         THEN [self |-> [cells |-> [s.cells EXCEPT ![index.index] =
                                      Freed(s.freed, s.cells[index.index].generation + 1)],
                         freed |-> Some(index.index),
                         num |-> s.num - 1],
               out |-> Unit]
         ELSE [self |-> [s EXCEPT !.num = s.num - 1], out |-> Unit]

\* remove that keeps the generation of the cell
Arena_remove_SameGeneration(s, index) ==
    IF index.index \notin DOMAIN s.cells
    THEN [self |-> s, out |-> Panic]
    ELSE IF s.cells[index.index].tag = "Allocated"
         THEN [self |-> [cells |-> [s.cells EXCEPT ![index.index] =
                                      Freed(s.freed, s.cells[index.index].generation)],
                         freed |-> Some(index.index),
                         num |-> s.num - 1],
               out |-> Unit]
         ELSE [self |-> s, out |-> Unit]

\* remove that links the freed cell to the new head, which is itself
Arena_remove_LinkToSelf(s, index) ==
    IF index.index \notin DOMAIN s.cells
    THEN [self |-> s, out |-> Panic]
    ELSE IF s.cells[index.index].tag = "Allocated"
         THEN [self |-> [cells |-> [s.cells EXCEPT ![index.index] =
                                      Freed(Some(index.index),
                                            s.cells[index.index].generation + 1)],
                         freed |-> Some(index.index),
                         num |-> s.num - 1],
               out |-> Unit]
         ELSE [self |-> s, out |-> Unit]

\* Arena::remove
Arena_remove(s, index) ==
    IF index.index \notin DOMAIN s.cells
    THEN [self |-> s, out |-> Panic]
    ELSE IF s.cells[index.index].tag = "Allocated"
         THEN [self |-> [cells |-> [s.cells EXCEPT ![index.index] =
                                      Freed(s.freed, s.cells[index.index].generation + 1)],
                         freed |-> Some(index.index),
                         num |-> s.num - 1],
               out |-> Unit]
         ELSE [self |-> s, out |-> Unit]

\* remove that does not make the freed cell the free-list head
SArena_remove_KeepHead(s, index) ==
    IF index.index \notin DOMAIN s.cells
    THEN [self |-> s, out |-> Panic]
    ELSE IF s.cells[index.index].tag = "Allocated"
         THEN [self |-> [cells |-> [s.cells EXCEPT ![index.index] =
                                      Freed(s.freed, s.cells[index.index].generation + 1)],
                         freed |-> s.freed,
                         num |-> s.num - 1],
               out |-> Unit]
         ELSE [self |-> s, out |-> Unit]

\* remove that pushes a cell that is already Freed onto the free list again
SArena_remove_PushFreed(s, index) ==
    IF index.index \notin DOMAIN s.cells
    THEN [self |-> s, out |-> Panic]
    ELSE IF s.cells[index.index].tag = "Allocated"
         THEN [self |-> [cells |-> [s.cells EXCEPT ![index.index] =
                                      Freed(s.freed, s.cells[index.index].generation + 1)],
                         freed |-> Some(index.index),
                         num |-> s.num - 1],
               out |-> Unit]
         ELSE [self |-> [cells |-> [s.cells EXCEPT ![index.index] =
                                      Freed(s.freed, s.cells[index.index].generation)],
                         freed |-> Some(index.index),
                         num |-> s.num],
               out |-> Unit]

\* SArena::remove
SArena_remove(s, index) ==
    IF index.index \notin DOMAIN s.cells
    THEN [self |-> s, out |-> Panic]
    ELSE IF s.cells[index.index].tag = "Allocated"
         THEN [self |-> [cells |-> [s.cells EXCEPT ![index.index] =
                                      Freed(s.freed, s.cells[index.index].generation + 1)],
                         freed |-> Some(index.index),
                         num |-> s.num - 1],
               out |-> Unit]
         ELSE [self |-> s, out |-> Unit]

\* clear that keeps the generation of the Allocated cells
clear_SameGeneration(s) ==
    LET len == Len(s.cells) IN
    [self |-> [cells |-> [i \in DOMAIN s.cells |->
                            Freed(IF i < len - 1 THEN Some(i + 1) ELSE None,
                                  s.cells[i].generation)],
               freed |-> s.freed,
               num |-> 0],
     out |-> Unit]

\* clear that drops the cells, as Vec::clear does
clear_Truncate(s) ==
    [self |-> [cells |-> [i \in {} |-> 0], freed |-> s.freed, num |-> 0],
     out |-> Unit]

\* Arena::clear
clear(s) ==
    LET len == Len(s.cells) IN
    [self |-> [cells |-> [i \in DOMAIN s.cells |->
                            IF s.cells[i].tag = "Allocated"
                            THEN Freed(IF i < len - 1 THEN Some(i + 1) ELSE None,
                                       s.cells[i].generation + 1)
                            ELSE Freed(IF i < len - 1 THEN Some(i + 1) ELSE None,
                                       s.cells[i].generation)],
               freed |-> s.freed,
               num |-> 0],
     out |-> Unit]

\* ------------------------------------------------------------------------
\* The state machine
\* ------------------------------------------------------------------------
NoCall == [op |-> "none"]

\* no call of try_insert is in progress: calls are made one at a time
NoCalls == <<>>

Init ==
    /\ kind \in {"Arena", "SArena"}
    /\ \E s \in IF kind = "Arena" THEN {Arena_new}
                                  ELSE {SArena_new(N) : N \in 0..MaxN} :
          /\ cells = s.cells
          /\ freed = s.freed
          /\ num = s.num
    /\ panicked = FALSE
    /\ last = NoCall
    /\ issued = {}
    /\ removed = {}
    /\ cleared = {}
    /\ calls = NoCalls

\* the effect of a mutating call with result r on the container
Apply(r) ==
    /\ cells' = r.self.cells
    /\ freed' = r.self.freed
    /\ num' = r.self.num
    /\ panicked' = (r.out.tag = "Panic")

\* the handles returned so far, after a call with result r
Issue(r) ==
    issued' = IF r.out.tag = "Ok" THEN issued \cup {r.out.idx} ELSE issued

\* a call that would take the model over its bounds is not made
InsertInBounds(s) == s.freed = None => Len(s.cells) < MaxCells
RemoveInBounds(s, index) ==
    (index.index \in DOMAIN s.cells /\ s.cells[index.index].tag = "Allocated")
        => s.cells[index.index].generation < MaxGen
ClearInBounds(s) ==
    \A i \in DOMAIN s.cells :
        s.cells[i].tag = "Allocated" => s.cells[i].generation < MaxGen

\* the generation of the Allocated cell index.index names, None when the
\* index is outside the storage or the cell is Freed
OccupiedGen(s, index) ==
    IF index.index \in DOMAIN s.cells /\ s.cells[index.index].tag = "Allocated"
    THEN Some(s.cells[index.index].generation)
    ELSE None

\* the calls that only read the container
Lookups == {"get", "get_mut", "get2_mut", "iter", "keys", "values",
            "get_any", "get_any_mut", "gen",
            "capacity", "num"}

\* a lookup leaves the container as it was, so the states reached by a lookup
\* that follows other lookups are those reached by making it right after the
\* last mutating call: lookups are made from there only
AfterMutation == last.op \notin Lookups

TryInsert(v) ==
    /\ kind = "Arena" /\ ~panicked
    /\ InsertInBounds(Self)
    /\ LET r == Arena_try_insert(Self, v) IN
        /\ Apply(r)
        /\ Issue(r)
        /\ last' = [op |-> "try_insert", val |-> v, out |-> r.out]
    /\ UNCHANGED <<kind, calls, removed, cleared>>

Insert(v) ==
    /\ kind = "Arena" /\ ~panicked
    /\ InsertInBounds(Self)
    /\ LET r == Arena_insert(Self, v) IN
        /\ Apply(r)
        /\ Issue(r)
        /\ last' = [op |-> "insert", val |-> v, out |-> r.out]
    /\ UNCHANGED <<kind, calls, removed, cleared>>

Remove(index) ==
    /\ kind = "Arena" /\ ~panicked
    /\ RemoveInBounds(Self, index)
    /\ LET r == Arena_remove(Self, index) IN
        /\ Apply(r)
        /\ last' = [op |-> "remove", index |-> index, out |-> r.out,
                     gen |-> OccupiedGen(Self, index)]
        /\ removed' = IF index \in issued /\ r.out.tag # "Panic"
                      THEN removed \cup {index} ELSE removed
    /\ UNCHANGED <<kind, calls, issued, cleared>>

Clear ==
    /\ kind = "Arena" /\ ~panicked
    /\ ClearInBounds(Self)
    /\ LET r == clear(Self) IN
        /\ Apply(r)
        /\ last' = [op |-> "clear", out |-> r.out]
    /\ cleared' = cleared \cup issued
    /\ UNCHANGED <<kind, calls, issued, removed>>

STryInsert(v) ==
    /\ kind = "SArena" /\ ~panicked
    /\ LET r == SArena_try_insert(Self, v) IN
        /\ Apply(r)
        /\ Issue(r)
        /\ last' = [op |-> "try_insert", val |-> v, out |-> r.out]
    /\ UNCHANGED <<kind, calls, removed, cleared>>

SInsert(v) ==
    /\ kind = "SArena" /\ ~panicked
    /\ LET r == SArena_insert(Self, v) IN
        /\ Apply(r)
        /\ Issue(r)
        /\ last' = [op |-> "insert", val |-> v, out |-> r.out]
    /\ UNCHANGED <<kind, calls, removed, cleared>>

SRemove(index) ==
    /\ kind = "SArena" /\ ~panicked
    /\ RemoveInBounds(Self, index)
    /\ LET r == SArena_remove(Self, index) IN
        /\ Apply(r)
        /\ last' = [op |-> "remove", index |-> index, out |-> r.out,
                     gen |-> OccupiedGen(Self, index)]
        /\ removed' = IF index \in issued /\ r.out.tag # "Panic"
                      THEN removed \cup {index} ELSE removed
    /\ UNCHANGED <<kind, calls, issued, cleared>>

\* a call of Arena::get; indexing outside the storage panics
Get(index) ==
    /\ kind = "Arena" /\ ~panicked
    /\ AfterMutation
    /\ IF index.index \in DOMAIN cells
       THEN /\ last' = [op |-> "get", index |-> index, out |-> Arena_get(Self, index)]
            /\ panicked' = FALSE
       ELSE /\ last' = [op |-> "get", index |-> index, out |-> Panic]
            /\ panicked' = TRUE
    /\ UNCHANGED <<kind, calls, cells, freed, num, issued, removed, cleared>>

\* a call of Arena::get_mut (nothing is written through the reference); indexing outside the storage panics
GetMut(index) ==
    /\ kind = "Arena" /\ ~panicked
    /\ AfterMutation
    /\ IF index.index \in DOMAIN cells
       THEN /\ last' = [op |-> "get_mut", index |-> index, out |-> Arena_get_mut(Self, index)]
            /\ panicked' = FALSE
       ELSE /\ last' = [op |-> "get_mut", index |-> index, out |-> Panic]
            /\ panicked' = TRUE
    /\ UNCHANGED <<kind, calls, cells, freed, num, issued, removed, cleared>>

\* a call of SArena::get; indexing outside the storage panics
SGet(index) ==
    /\ kind = "SArena" /\ ~panicked
    /\ AfterMutation
    /\ IF index.index \in DOMAIN cells
       THEN /\ last' = [op |-> "get", index |-> index, out |-> SArena_get(Self, index)]
            /\ panicked' = FALSE
       ELSE /\ last' = [op |-> "get", index |-> index, out |-> Panic]
            /\ panicked' = TRUE
    /\ UNCHANGED <<kind, calls, cells, freed, num, issued, removed, cleared>>

\* a call of SArena::get_mut (nothing is written through the reference); indexing outside the storage panics
SGetMut(index) ==
    /\ kind = "SArena" /\ ~panicked
    /\ AfterMutation
    /\ IF index.index \in DOMAIN cells
       THEN /\ last' = [op |-> "get_mut", index |-> index, out |-> SArena_get_mut(Self, index)]
            /\ panicked' = FALSE
       ELSE /\ last' = [op |-> "get_mut", index |-> index, out |-> Panic]
            /\ panicked' = TRUE
    /\ UNCHANGED <<kind, calls, cells, freed, num, issued, removed, cleared>>

\* a call of Arena::get2_mut
Get2Mut(i0, i1) ==
    /\ kind = "Arena" /\ ~panicked
    /\ AfterMutation
    /\ LET out == Arena_get2_mut(Self, <<i0, i1>>) IN
        /\ last' = [op |-> "get2_mut", indices |-> <<i0, i1>>, out |-> out,
                    written |-> {}]
        /\ panicked' = (out = Panic)
    /\ UNCHANGED <<kind, calls, cells, freed, num, issued, removed, cleared>>

\* a call of SArena::get2_mut
SGet2Mut(i0, i1) ==
    /\ kind = "SArena" /\ ~panicked
    /\ AfterMutation
    /\ LET out == SArena_get2_mut(Self, <<i0, i1>>) IN
        /\ last' = [op |-> "get2_mut", indices |-> <<i0, i1>>, out |-> out,
                    written |-> {}]
        /\ panicked' = (out = Panic)
    /\ UNCHANGED <<kind, calls, cells, freed, num, issued, removed, cleared>>

\* the caller writes w through the first (k = 0) or second (k = 1) reference
\* the last call of get2_mut returned, while it still holds the references;
\* last.out follows the values the references point to, last.written the
\* references written through
WriteRef(k, w) ==
    /\ ~panicked
    /\ last.op = "get2_mut"
    /\ LET ref == IF k = 0 THEN last.out.r0 ELSE last.out.r1
           i == last.indices[k + 1].index
       IN
        /\ ref # None
        /\ cells' = [cells EXCEPT ![i] = Allocated(w, cells[i].generation)]
        /\ last' = [last EXCEPT !.out = IF k = 0 THEN Pair(Some(w), last.out.r1)
                                                ELSE Pair(last.out.r0, Some(w)),
                                !.written = @ \cup {k}]
    /\ UNCHANGED <<kind, calls, freed, num, panicked, issued, removed, cleared>>

\* a for loop over Arena::iter
Iter ==
    /\ kind = "Arena" /\ ~panicked
    /\ AfterMutation
    /\ last' = [op |-> "iter", out |-> Iter_collect(Arena_iter(Self))]
    /\ UNCHANGED <<kind, calls, cells, freed, num, panicked, issued, removed, cleared>>

\* a for loop over Arena::keys
Keys ==
    /\ kind = "Arena" /\ ~panicked
    /\ AfterMutation
    /\ last' = [op |-> "keys", out |-> KeyIter_collect(Arena_keys(Self))]
    /\ UNCHANGED <<kind, calls, cells, freed, num, panicked, issued, removed, cleared>>

\* a for loop over Arena::values
Values ==
    /\ kind = "Arena" /\ ~panicked
    /\ AfterMutation
    /\ last' = [op |-> "values", out |-> ValueIter_collect(Arena_values(Self))]
    /\ UNCHANGED <<kind, calls, cells, freed, num, panicked, issued, removed, cleared>>

\* a call of Arena::get_any; indexing self.cells outside its bounds panics
GetAny(index) ==
    /\ kind = "Arena" /\ ~panicked
    /\ AfterMutation
    /\ IF index \in DOMAIN cells
       THEN /\ last' = [op |-> "get_any", slot |-> index, out |-> Arena_get_any(Self, index)]
            /\ panicked' = FALSE
       ELSE /\ last' = [op |-> "get_any", slot |-> index, out |-> Panic]
            /\ panicked' = TRUE
    /\ UNCHANGED <<kind, calls, cells, freed, num, issued, removed, cleared>>

\* a call of Arena::get_any_mut; indexing self.cells outside its bounds panics
GetAnyMut(index) ==
    /\ kind = "Arena" /\ ~panicked
    /\ AfterMutation
    /\ IF index \in DOMAIN cells
       THEN /\ last' = [op |-> "get_any_mut", slot |-> index, out |-> Arena_get_any_mut(Self, index)]
            /\ panicked' = FALSE
       ELSE /\ last' = [op |-> "get_any_mut", slot |-> index, out |-> Panic]
            /\ panicked' = TRUE
    /\ UNCHANGED <<kind, calls, cells, freed, num, issued, removed, cleared>>

\* a call of SArena::get_any; indexing self.cells outside its bounds panics
SGetAny(index) ==
    /\ kind = "SArena" /\ ~panicked
    /\ AfterMutation
    /\ IF index \in DOMAIN cells
       THEN /\ last' = [op |-> "get_any", slot |-> index, out |-> SArena_get_any(Self, index)]
            /\ panicked' = FALSE
       ELSE /\ last' = [op |-> "get_any", slot |-> index, out |-> Panic]
            /\ panicked' = TRUE
    /\ UNCHANGED <<kind, calls, cells, freed, num, issued, removed, cleared>>

\* a call of SArena::get_any_mut; indexing self.cells outside its bounds panics
SGetAnyMut(index) ==
    /\ kind = "SArena" /\ ~panicked
    /\ AfterMutation
    /\ IF index \in DOMAIN cells
       THEN /\ last' = [op |-> "get_any_mut", slot |-> index, out |-> SArena_get_any_mut(Self, index)]
            /\ panicked' = FALSE
       ELSE /\ last' = [op |-> "get_any_mut", slot |-> index, out |-> Panic]
            /\ panicked' = TRUE
    /\ UNCHANGED <<kind, calls, cells, freed, num, issued, removed, cleared>>

\* a call of Arena::gen; indexing self.cells outside its bounds panics
Gen(index) ==
    /\ kind = "Arena" /\ ~panicked
    /\ AfterMutation
    /\ IF index \in DOMAIN cells
       THEN /\ last' = [op |-> "gen", slot |-> index, out |-> Arena_gen(Self, index)]
            /\ panicked' = FALSE
       ELSE /\ last' = [op |-> "gen", slot |-> index, out |-> Panic]
            /\ panicked' = TRUE
    /\ UNCHANGED <<kind, calls, cells, freed, num, issued, removed, cleared>>

\* a call of SArena::gen; indexing self.cells outside its bounds panics
SGen(index) ==
    /\ kind = "SArena" /\ ~panicked
    /\ AfterMutation
    /\ IF index \in DOMAIN cells
       THEN /\ last' = [op |-> "gen", slot |-> index, out |-> SArena_gen(Self, index)]
            /\ panicked' = FALSE
       ELSE /\ last' = [op |-> "gen", slot |-> index, out |-> Panic]
            /\ panicked' = TRUE
    /\ UNCHANGED <<kind, calls, cells, freed, num, issued, removed, cleared>>

\* a call of Arena::reserve
Reserve(additional) ==
    /\ kind = "Arena" /\ ~panicked
    /\ LET r == Arena_reserve(Self, additional) IN
        /\ Apply(r)
        /\ last' = [op |-> "reserve", additional |-> additional, out |-> r.out]
    /\ UNCHANGED <<kind, calls, issued, removed, cleared>>

\* a call of SArena::capacity
SCapacity ==
    /\ kind = "SArena" /\ ~panicked
    /\ AfterMutation
    /\ last' = [op |-> "capacity", out |-> SArena_capacity(Self)]
    /\ UNCHANGED <<kind, calls, cells, freed, num, panicked, issued, removed, cleared>>

\* a call of SArena::num
SNum ==
    /\ kind = "SArena" /\ ~panicked
    /\ AfterMutation
    /\ last' = [op |-> "num", out |-> SArena_num(Self)]
    /\ UNCHANGED <<kind, calls, cells, freed, num, panicked, issued, removed, cleared>>

Next ==
    \/ \E v \in Vals : TryInsert(v)
    \/ \E v \in Vals : Insert(v)
    \/ \E index \in Handles : Remove(index)
    \/ Clear
    \/ \E v \in Vals : STryInsert(v)
    \/ \E v \in Vals : SInsert(v)
    \/ \E index \in Handles : SRemove(index)
    \/ \E index \in Handles : Get(index)
    \/ \E index \in Handles : GetMut(index)
    \/ \E index \in Handles : SGet(index)
    \/ \E index \in Handles : SGetMut(index)
    \/ \E i0, i1 \in Handles : Get2Mut(i0, i1)
    \/ \E i0, i1 \in Handles : SGet2Mut(i0, i1)
    \/ \E k \in 0..1, w \in Vals : WriteRef(k, w)
    \/ Iter
    \/ Keys
    \/ Values
    \/ \E index \in 0..MaxIndex : GetAny(index)
    \/ \E index \in 0..MaxIndex : GetAnyMut(index)
    \/ \E index \in 0..MaxIndex : SGetAny(index)
    \/ \E index \in 0..MaxIndex : SGetAnyMut(index)
    \/ \E index \in 0..MaxIndex : Gen(index)
    \/ \E index \in 0..MaxIndex : SGen(index)
    \/ \E additional \in 1..MaxCells : Reserve(additional)
    \/ SCapacity
    \/ SNum

Spec == Init /\ [][Next]_vars

\* ------------------------------------------------------------------------
\* SArena::try_insert called through &self from several call sites at once.
\* The unsafe block reads self.freed and self.cells[i] and writes
\* (*selfp).freed, (*selfp).cells[i] and (*selfp).num without any
\* synchronisation, so the reads and writes of the calls interleave.
\* ------------------------------------------------------------------------
Sites == 1..MaxSites

\* a call site that is not inside try_insert
Idle == [pc |-> "idle"]

\* one SArena, with at least one cell, shared by the call sites
InitShared ==
    /\ kind = "SArena"
    /\ \E N \in 1..MaxN :
          /\ cells = SArena_new(N).cells
          /\ freed = SArena_new(N).freed
          /\ num = SArena_new(N).num
    /\ panicked = FALSE
    /\ last = NoCall
    /\ issued = {}
    /\ removed = {}
    /\ cleared = {}
    /\ calls = [t \in Sites |-> Idle]

\* call site t calls try_insert(val)
Call(t, val) ==
    /\ calls[t].pc \in {"idle", "returned"}
    /\ calls' = [calls EXCEPT ![t] = [pc |-> "match_freed", val |-> val]]
    /\ UNCHANGED <<kind, cells, freed, num, panicked, last, issued, removed, cleared>>

\* match self.freed: reads the free-list head
ReadHead(t) ==
    /\ calls[t].pc = "match_freed"
    /\ calls' = [calls EXCEPT ![t] =
                    IF freed = None
                    THEN [pc |-> "returned", val |-> calls[t].val, out |-> Err(calls[t].val)]
                    ELSE [pc |-> "read_cell", val |-> calls[t].val, i |-> Unwrap(freed)]]
    /\ UNCHANGED <<kind, cells, freed, num, panicked, last, issued, removed, cleared>>

\* if let ArenaCell::Freed{next, generation} = self.cells[i]: reads the cell
ReadCell(t) ==
    /\ calls[t].pc = "read_cell"
    /\ LET c == calls[t]
           cell == cells[c.i]
       IN calls' = [calls EXCEPT ![t] =
                    IF cell.tag = "Freed"
                    THEN [pc |-> "write_freed", val |-> c.val, i |-> c.i,
                          next |-> cell.next, generation |-> cell.generation]
                    ELSE [pc |-> "returned", val |-> c.val, out |-> Err(c.val)]]
    /\ UNCHANGED <<kind, cells, freed, num, panicked, last, issued, removed, cleared>>

\* (*selfp).freed = next
WriteHead(t) ==
    /\ calls[t].pc = "write_freed"
    /\ freed' = calls[t].next
    /\ calls' = [calls EXCEPT ![t].pc = "write_cell"]
    /\ UNCHANGED <<kind, cells, num, panicked, last, issued, removed, cleared>>

\* (*selfp).cells[i] = ArenaCell::Allocated{val, generation}
WriteCell(t) ==
    /\ calls[t].pc = "write_cell"
    /\ cells' = [cells EXCEPT ![calls[t].i] = Allocated(calls[t].val, calls[t].generation)]
    /\ calls' = [calls EXCEPT ![t].pc = "add_num"]
    /\ UNCHANGED <<kind, freed, num, panicked, last, issued, removed, cleared>>

\* (*selfp).num += 1; Ok(SArenaIdx::new(i, generation))
AddNum(t) ==
    /\ calls[t].pc = "add_num"
    /\ num' = num + 1
    /\ LET c == calls[t] IN
        /\ calls' = [calls EXCEPT ![t] =
                        [pc |-> "returned", val |-> c.val,
                         out |-> Ok(ArenaIdx(c.i, c.generation))]]
        /\ issued' = issued \cup {ArenaIdx(c.i, c.generation)}
    /\ UNCHANGED <<kind, cells, freed, panicked, last, removed, cleared>>

NextShared ==
    \/ \E t \in Sites, val \in Vals : Call(t, val)
    \/ \E t \in Sites : ReadHead(t)
    \/ \E t \in Sites : ReadCell(t)
    \/ \E t \in Sites : WriteHead(t)
    \/ \E t \in Sites : WriteCell(t)
    \/ \E t \in Sites : AddNum(t)

SpecShared == InitShared /\ [][NextShared]_vars

\* ------------------------------------------------------------------------
\* Properties
\* ------------------------------------------------------------------------
InRange(index) == index.index \in DOMAIN cells

\* get of the arena that was constructed
get(s, index) ==
    IF kind = "Arena" THEN Arena_get(s, index) ELSE SArena_get(s, index)

\* a step that is a call of get or get_mut with handle index
LookupCall(index) == Get(index) \/ GetMut(index) \/ SGet(index) \/ SGetMut(index)

\* a step that is a call of insert or try_insert with value v
InsertCall(v) == Insert(v) \/ TryInsert(v) \/ SInsert(v) \/ STryInsert(v)

\* a step that is a call of remove with handle index
RemoveCall(index) == Remove(index) \/ SRemove(index)

\* the cell index.index is Occupied under the generation of index
Occupies(c, index) ==
    /\ index.index \in DOMAIN c
    /\ c[index.index].tag = "Allocated"
    /\ c[index.index].generation = index.generation

\* C1 (round trip): every insert or try_insert on the growable arena, and
\* every one on a fixed-capacity arena that is not full, returns a handle,
\* and get of that handle right after the call is Some of the value inserted.
C1_RoundTrip ==
    [][\A v \in Vals :
          (InsertCall(v) /\ (kind = "Arena" \/ num < Len(cells)))
              => /\ last'.out.tag = "Ok"
                 /\ last'.out.idx.index \in DOMAIN cells'
                 /\ get(Self', last'.out.idx) = Some(v)]_vars

\* an insert into a slot that had been freed gave back a handle that reads
\* the inserted value
C1_Witness ==
    /\ last.op \in {"insert", "try_insert"}
    /\ last.out.tag = "Ok"
    /\ last.out.idx.generation >= 1
    /\ get(Self, last.out.idx) = Some(last.val)

\* C2 (handle validity): for a handle whose index is inside the storage,
\* get and get_mut return Some of the value stored in the slot iff the slot
\* is Occupied with the handle's generation, None otherwise; they do not
\* panic and leave the arena as it was.
C2_HandleValidity ==
    [][\A index \in Handles :
          (InRange(index) /\ LookupCall(index))
              => /\ last'.out = IF Occupies(cells, index)
                                THEN Some(cells[index.index].val)
                                ELSE None
                 /\ ~panicked'
                 /\ UNCHANGED <<cells, freed, num>>]_vars

\* a lookup with a stale handle (the slot is Occupied under a newer
\* generation) returned None
C2_Witness ==
    /\ last.op \in {"get", "get_mut"}
    /\ InRange(last.index)
    /\ cells[last.index.index].tag = "Allocated"
    /\ cells[last.index.index].generation > last.index.generation
    /\ last.out = None

\* C3 (tombstone): a handle the arena issued and remove was called with
\* reads None in every later state, and no later insert or try_insert
\* returns that handle again.
C3_Tombstone ==
    [][/\ \A index \in removed' :
            index.index \in DOMAIN cells' /\ get(Self', index) = None
       /\ \A v \in Vals :
            (InsertCall(v) /\ last'.out.tag = "Ok") => last'.out.idx \notin removed]_vars

\* the slot of a removed handle is Occupied again, under another handle
C3_Witness ==
    \E index \in removed :
        /\ cells[index.index].tag = "Allocated"
        /\ cells[index.index].generation > index.generation
        /\ get(Self, index) = None

\* C4 (remove only removes its own object): remove with a stale handle (the
\* slot is Occupied under a generation other than the handle's) changes
\* nothing, and a remove never changes what get returns for another valid
\* handle. Stated as the claim reads; remove does not compare generations.
C4_StaleRemoveIsNoOp ==
    [][\A index \in Handles :
          RemoveCall(index)
              => /\ (InRange(index)
                       /\ cells[index.index].tag = "Allocated"
                       /\ cells[index.index].generation # index.generation)
                     => UNCHANGED <<cells, freed, num>>
                 /\ \A other \in issued :
                      (other # index /\ get(Self, other) # None)
                          => get(Self', other) = get(Self, other)]_vars

\* C5 (reuse), as the claim reads: when remove has freed an Occupied slot
\* and the next call is an insert or try_insert, the handle returned has the
\* index of the removed handle and the generation the slot had plus one, the
\* storage keeps its length, the new handle reads the inserted value and the
\* removed handle reads None. remove also frees a slot whose generation is
\* not the handle's, and the handle then returned can be the one remove was
\* called with.
C5_Reuse ==
    [][\A v \in Vals :
          (last.op = "remove" /\ last.gen # None /\ InsertCall(v))
              => /\ last'.out = Ok(ArenaIdx(last.index.index, Unwrap(last.gen) + 1))
                 /\ Len(cells') = Len(cells)
                 /\ get(Self', last'.out.idx) = Some(v)
                 /\ get(Self', last.index) = None]_vars

\* the number of Occupied cells of the storage
NumOccupied == Cardinality({i \in DOMAIN cells : cells[i].tag = "Allocated"})

\* C6 (live count): num is the number of Occupied cells and the number of
\* issued handles that get reads Some for, and it is never negative.
C6_LiveCount ==
    /\ num >= 0
    /\ num = NumOccupied
    /\ \A index \in issued : InRange(index)
    /\ num = Cardinality({index \in issued : get(Self, index) # None})

\* a remove of an already removed handle left one live value, after a clear
C6_Witness ==
    /\ last.op = "remove"
    /\ last.index \in removed
    /\ last.gen = None
    /\ cleared # {}
    /\ num = 1

\* C7 (clear invalidates all): right after clear every handle issued before
\* reads None and num is 0; the handles issued before a clear read None in
\* every later state and no later insert or try_insert returns one of them.
C7_ClearInvalidatesAll ==
    [][/\ Clear => /\ \A index \in issued : get(Self', index) = None
                   /\ num' = 0
       /\ \A index \in cleared' : get(Self', index) = None
       /\ \A v \in Vals :
            (InsertCall(v) /\ last'.out.tag = "Ok") => last'.out.idx \notin cleared]_vars

\* after a clear of two live values both slots are Occupied again
C7_Witness ==
    /\ Cardinality({index \in cleared : index.generation = 0}) = 2
    /\ NumOccupied = 2
    /\ \A index \in cleared : get(Self, index) = None

\* C8 (growable insert always succeeds): the free-list head of the growable
\* arena, when present, names a Freed cell of the storage, and every insert
\* and try_insert returns Ok, without a panic, and adds one to num.
C8_InsertSucceeds ==
    [][/\ (kind = "Arena" /\ freed' # None)
            => /\ Unwrap(freed') \in DOMAIN cells'
               /\ cells'[Unwrap(freed')].tag = "Freed"
       /\ \A v \in Vals :
            (Insert(v) \/ TryInsert(v))
                => /\ last'.out.tag = "Ok"
                   /\ ~panicked'
                   /\ num' = num + 1]_vars

\* an insert succeeded after a clear that left a free-list head in place
C8_Witness ==
    /\ kind = "Arena"
    /\ last.op = "insert"
    /\ last.out.tag = "Ok"
    /\ cleared # {}
    /\ freed # None

\* C9 as the claim reads: try_insert of the growable arena leaves the number
\* of cells unchanged.
C9_TryInsertNeverGrows ==
    [][\A v \in Vals : TryInsert(v) => Len(cells') = Len(cells)]_vars

\* C9 (amended): try_insert of the growable arena leaves the number of cells
\* unchanged when the free-list head is present; when the free list is empty
\* it appends one Occupied cell of generation 0 holding the value and returns
\* its handle.
C9_TryInsertGrowsOnlyWhenNoFree ==
    [][\A v \in Vals :
          TryInsert(v)
              => IF freed # None
                 THEN Len(cells') = Len(cells)
                 ELSE /\ Len(cells') = Len(cells) + 1
                      /\ cells'[Len(cells)] = Allocated(v, 0)
                      /\ \A i \in DOMAIN cells : cells'[i] = cells[i]
                      /\ last'.out = Ok(ArenaIdx(Len(cells), 0))]_vars

\* a try_insert has appended a second cell, and one has reused a freed cell
C9_Witness ==
    /\ kind = "Arena"
    /\ last.op = "try_insert"
    /\ last.out.tag = "Ok"
    /\ Len(cells) = 2
    /\ \/ last.out.idx = ArenaIdx(1, 0)
       \/ last.out.idx.generation >= 1

\* C10 (fixed-capacity exhaustion): on a full SArena of capacity N >= 1
\* try_insert returns Err of the value and changes no cell, not the
\* free-list head and not num, and insert panics; a remove of a live value
\* leaves the arena not full, and try_insert on an arena that is not full
\* (so the next one after such a remove) returns Ok.
C10_Exhaustion ==
    [][\A v \in Vals :
          /\ (kind = "SArena" /\ Len(cells) >= 1 /\ num = Len(cells))
                => /\ STryInsert(v) => /\ last'.out = Err(v)
                                       /\ ~panicked'
                                       /\ UNCHANGED <<cells, freed, num>>
                   /\ SInsert(v) => /\ last'.out = Panic
                                    /\ panicked'
                                    /\ UNCHANGED <<cells, freed, num>>
          /\ (last.op = "remove" /\ last.gen # None /\ STryInsert(v))
                => last'.out.tag = "Ok"
          /\ \A index \in Handles :
                (SRemove(index) /\ OccupiedGen(Self, index) # None)
                    => num' < Len(cells')
          /\ (kind = "SArena" /\ num < Len(cells) /\ STryInsert(v))
                => last'.out.tag = "Ok"]_vars

\* try_insert on a full SArena of capacity 2 handed the value back
C10_Witness ==
    /\ kind = "SArena"
    /\ Len(cells) = 2
    /\ num = 2
    /\ last.op = "try_insert"
    /\ last.out.tag = "Err"

\* a call of get2_mut of either container
Get2MutCall(i0, i1) == Get2Mut(i0, i1) \/ SGet2Mut(i0, i1)

\* C11: get2_mut with the same handle twice (same index, same generation)
\* panics whatever the state of the slot, returns no pair of references, and
\* leaves the container as it was
C11_SameHandleTwiceFails ==
    [][\A index \in Handles :
        Get2MutCall(index, index)
            => /\ last'.out = Panic
               /\ panicked'
               /\ Self' = Self]_vars

\* get2_mut was called with twice the handle of a live value and panicked
C11_Witness ==
    /\ panicked
    /\ last.op = "get2_mut"
    /\ last.indices[1] = last.indices[2]
    /\ Occupies(cells, last.indices[1])

\* get_mut of the container at hand
get_mut(s, index) ==
    IF kind = "Arena" THEN Arena_get_mut(s, index) ELSE SArena_get_mut(s, index)

\* C12: get2_mut on two handles with the same in-range index and different
\* generations returns nothing for the handle with the lower generation, and
\* for each of the two handles, issued or constructed by the caller, what
\* get_mut returns for that handle alone
C12_SameSlotRace ==
    [][\A i0 \in Handles : \A g \in 0..MaxGen :
        LET i1 == ArenaIdx(i0.index, g) IN
        /\ Get2MutCall(i0, i1)
        /\ InRange(i0)
        /\ i0.generation # i1.generation
        => /\ last'.out = Pair(get_mut(Self, i0), get_mut(Self, i1))
           /\ IF i0.generation > i1.generation
              THEN last'.out.r1 = None
              ELSE last'.out.r0 = None]_vars

\* the same for the handles the container issued
C12_SameSlotRaceIssued ==
    [][\A i0 \in issued : \A i1 \in issued :
        /\ Get2MutCall(i0, i1)
        /\ i0.index = i1.index
        /\ i0.generation # i1.generation
        => /\ last'.out = Pair(get_mut(Self, i0), get_mut(Self, i1))
           /\ IF i0.generation > i1.generation
              THEN last'.out.r1 = None
              ELSE last'.out.r0 = None]_vars

\* C13: get2_mut on two handles with different in-range indices returns for
\* each handle, in the order given, what get_mut returns for it alone and
\* changes nothing; a write through one of the returned references changes the
\* value of its slot only (no other slot, no generation, not the free list,
\* not num), and get then returns, for both handles, the value last written
\* through its reference
C13_DisjointDualMutation ==
    [][/\ last'.op = "get2_mut" /\ last'.written = {}
          => LET i0 == last'.indices[1]
                 i1 == last'.indices[2]
             IN
             /\ Get2MutCall(i0, i1)
             /\ i0.index # i1.index
             /\ InRange(i0) /\ InRange(i1)
             => /\ last'.out = Pair(get_mut(Self, i0), get_mut(Self, i1))
                /\ Self' = Self
       /\ \A k \in 0..1 : \A w \in Vals :
            LET i0 == last.indices[1]
                i1 == last.indices[2]
                ik == last.indices[k + 1]
            IN
            /\ WriteRef(k, w)
            /\ i0.index # i1.index
            => /\ get(Self', ik) = Some(w)
               /\ last'.out.r0 # None => get(Self', i0) = last'.out.r0
               /\ last'.out.r1 # None => get(Self', i1) = last'.out.r1
               /\ DOMAIN cells' = DOMAIN cells
               /\ \A j \in DOMAIN cells :
                    /\ j # ik.index => cells'[j] = cells[j]
                    /\ cells'[j].tag = cells[j].tag
                    /\ cells'[j].generation = cells[j].generation
               /\ freed' = freed
               /\ num' = num]_vars

\* get2_mut was called with the larger index first, both references were
\* written through with different values, and get returns the two values
C13_Witness ==
    /\ last.op = "get2_mut"
    /\ last.written = {0, 1}
    /\ last.indices[1].index > last.indices[2].index
    /\ last.out.r0 # last.out.r1
    /\ get(Self, last.indices[1]) = last.out.r0
    /\ get(Self, last.indices[2]) = last.out.r1

\* the Occupied slots of the container, and the sequence of their indices in
\* increasing order
OccupiedSlots == {i \in DOMAIN cells : cells[i].tag = "Allocated"}

\* C14: in every reachable state of the growable arena iter() yields one
\* (handle, value) pair for each Occupied slot and none for a Free slot, in
\* strictly increasing order of the slot index; each handle carries the
\* current generation of its slot, so that get(handle) is the value yielded;
\* the number of items is num(); keys() and values() yield the same sequence
\* projected to the handles and to the values; and what a loop over iter(),
\* keys() or values() got is that sequence
C14_Iteration ==
    kind = "Arena" =>
        LET items == Iter_collect(Arena_iter(Self))
            keys == KeyIter_collect(Arena_keys(Self))
            values == ValueIter_collect(Arena_values(Self))
        IN
        /\ {items[k][1].index : k \in DOMAIN items} = OccupiedSlots
        /\ \A k \in DOMAIN items :
            /\ Occupies(cells, items[k][1])
            /\ Arena_get(Self, items[k][1]) = Some(items[k][2])
            /\ \A j \in DOMAIN items : j < k => items[j][1].index < items[k][1].index
        /\ Len(items) = num
        /\ keys = [k \in DOMAIN items |-> items[k][1]]
        /\ values = [k \in DOMAIN items |-> items[k][2]]
        /\ last.op = "iter" => last.out = items
        /\ last.op = "keys" => last.out = keys
        /\ last.op = "values" => last.out = values

\* a loop over iter() skipped the Free slot 0 and got the value of slot 1,
\* with a handle of a generation other than the first
C14_Witness ==
    /\ last.op = "iter"
    /\ Len(cells) = 2
    /\ cells[0].tag = "Freed"
    /\ Len(last.out) = 1
    /\ last.out[1][1].index = 1
    /\ last.out[1][1].generation > 0

\* get_any and get_any_mut of the container at hand
get_any(s, index) ==
    IF kind = "Arena" THEN Arena_get_any(s, index) ELSE SArena_get_any(s, index)

get_any_mut(s, index) ==
    IF kind = "Arena" THEN Arena_get_any_mut(s, index) ELSE SArena_get_any_mut(s, index)

\* C16: for every slot index i inside the container, get_any(i) and
\* get_any_mut(i) return the value stored in slot i when it is Occupied and
\* nothing when it is Free, whatever the generation: for a handle of slot i
\* with another generation than the occupant's, get is None while get_any(i)
\* is the occupant's value; and a call of get_any / get_any_mut returned this
C16_GetAnyIgnoresGenerations ==
    /\ \A i \in DOMAIN cells :
        /\ get_any_mut(Self, i) = get_any(Self, i)
        /\ cells[i].tag = "Allocated" => get_any(Self, i) = Some(cells[i].val)
        /\ cells[i].tag = "Freed" => get_any(Self, i) = None
        /\ \A h \in Handles :
            /\ h.index = i
            /\ cells[i].tag = "Allocated"
            /\ h.generation # cells[i].generation
            => /\ get(Self, h) = None
               /\ get_any(Self, i) = Some(cells[i].val)
    /\ last.op = "get_any" /\ ~panicked => last.out = get_any(Self, last.slot)
    /\ last.op = "get_any_mut" /\ ~panicked => last.out = get_any_mut(Self, last.slot)

\* get_any returned the value of the new occupant of a slot for which the
\* container had issued a handle, now stale: get returns None for that handle
C16_Witness ==
    /\ last.op = "get_any"
    /\ ~panicked
    /\ \E h \in issued \cap removed :
        /\ h.index = last.slot
        /\ cells[h.index].tag = "Allocated"
        /\ cells[h.index].generation > h.generation
        /\ get(Self, h) = None
        /\ last.out = Some(cells[h.index].val)

RECURSIVE FreeListWalk(_, _, _)
\* follows the next links in cells c from head, as try_insert does one link
\* at a time: the slots visited, in order, and whether the walk met only
\* existing Free slots, each once, before it reached None
FreeListWalk(c, head, visited) ==
    IF head = None
    THEN [slots |-> visited, wellformed |-> TRUE]
    ELSE LET i == Unwrap(head) IN
         IF \/ i \notin DOMAIN c
            \/ c[i].tag # "Freed"
            \/ \E k \in DOMAIN visited : visited[k] = i
         THEN [slots |-> visited, wellformed |-> FALSE]
         ELSE FreeListWalk(c, c[i].next, [k \in 1..(Len(visited) + 1) |->
                                            IF k <= Len(visited) THEN visited[k] ELSE i])

\* the free list of the container
FreeList == FreeListWalk(cells, freed, <<>>)

\* the Free slots of the container
FreeSlots == {i \in DOMAIN cells : cells[i].tag = "Freed"}

\* C17: in every state reachable through insert, try_insert, remove and clear
\* (of the growable arena, and of a fixed-capacity arena that has slots), the
\* next links followed from the free-list head visit only existing slots that
\* are Free, no slot twice, and end at a slot whose next is None
C17_FreeListWellFormed ==
    (kind = "Arena" \/ Len(cells) > 0) => FreeList.wellformed

\* after two removes the free list is slot 1, then slot 0, then the end
C17_Witness ==
    /\ kind = "Arena"
    /\ last.op = "remove"
    /\ FreeList.wellformed
    /\ FreeList.slots = <<1, 0>>
    /\ cells[0].next = None

\* the slots on the free list
FreeListSlots == {FreeList.slots[k] : k \in DOMAIN FreeList.slots}

\* C18: after every call on the growable arena (insert, try_insert, remove,
\* clear, in any order) every Free slot is reachable from the free-list head,
\* and insert / try_insert append a new slot only when no slot is Free (which
\* is what keeps the number of slots at the largest number of values that
\* were live together)
C18_FreeListComplete ==
    [][/\ kind = "Arena" => FreeSlots' \subseteq FreeListSlots'
       /\ \A v \in Vals :
            (Insert(v) \/ TryInsert(v)) /\ Len(cells') > Len(cells)
                => FreeSlots = {}]_vars

\* C19: after clear() every slot is Free, a slot that was Occupied has its
\* generation increased by one and a slot that was Free keeps its generation,
\* the free list from the head is the forward chain 0 -> 1 -> ... -> last
\* slot -> None over all slots (so that the inserts that follow reuse the
\* slots 0, 1, 2, ... in that order), the number of slots is unchanged, and
\* the call does not fail (also on an arena without slots)
C19_ClearPostState ==
    [][Clear =>
        /\ ~panicked'
        /\ DOMAIN cells' = DOMAIN cells
        /\ \A i \in DOMAIN cells :
            /\ cells'[i].tag = "Freed"
            /\ cells'[i].generation = IF cells[i].tag = "Allocated"
                                      THEN cells[i].generation + 1
                                      ELSE cells[i].generation
        /\ FreeList'.wellformed
        /\ FreeList'.slots = [k \in 1..Len(cells) |-> k - 1]]_vars

\* gen of the container at hand
gen(s, index) ==
    IF kind = "Arena" THEN Arena_gen(s, index) ELSE SArena_gen(s, index)

\* C20: in every step (insert, try_insert, remove, clear, every lookup, a
\* write through a reference) every slot stays, and its generation, as gen
\* returns it, increases by exactly one if the slot goes from Occupied to Free
\* in the step and is unchanged otherwise; a slot appended in the step has
\* generation 0; and a call of gen returned the generation of the slot
C20_GenerationMonotonic ==
    [][/\ DOMAIN cells \subseteq DOMAIN cells'
       /\ \A i \in DOMAIN cells :
            gen(Self', i) = IF cells[i].tag = "Allocated" /\ cells'[i].tag = "Freed"
                            THEN gen(Self, i) + 1
                            ELSE gen(Self, i)
       /\ \A i \in DOMAIN cells' \ DOMAIN cells : gen(Self', i) = 0
       /\ last'.op = "gen" /\ ~panicked' => last'.out = cells[last'.slot].generation]_vars

\* gen returned 2 for a slot that is Occupied for the third time
C20_Witness ==
    /\ last.op = "gen"
    /\ ~panicked
    /\ last.out = 2
    /\ cells[last.slot].tag = "Allocated"

\* C15: when every call of try_insert made through shared access by the call
\* sites has returned, whatever the order in which their steps were taken,
\* the handles of any two successful calls are different, the value of every
\* successful call is what get returns for its handle, and num is the number
\* of Occupied slots
C15_SharedInsertion ==
    (\A t \in Sites : calls[t].pc = "returned") =>
        /\ \A t \in Sites : \A u \in Sites :
            (t # u /\ calls[t].out.tag = "Ok" /\ calls[u].out.tag = "Ok")
                => calls[t].out.idx # calls[u].out.idx
        /\ \A t \in Sites :
            calls[t].out.tag = "Ok"
                => SArena_get(Self, calls[t].out.idx) = Some(calls[t].val)
        /\ num = NumOccupied

\* C21: remove with a handle whose index is inside the storage and whose slot
\* is Free does not panic and leaves every slot, every generation, the
\* free-list head and num as they were; so a remove that follows a remove of
\* the same handle changes nothing, and the slot is on the free list once
C21_RemoveFreeIsNoOp ==
    [][last'.op = "remove" =>
        LET index == last'.index IN
        /\ RemoveCall(index)
        /\ InRange(index)
        => /\ cells[index.index].tag = "Freed"
                => /\ Self' = Self
                   /\ ~panicked'
           /\ (last.op = "remove" /\ last.index = index) => Self' = Self
           /\ Cardinality({k \in DOMAIN FreeList'.slots :
                              FreeList'.slots[k] = index.index}) <= 1]_vars

\* remove was called with an issued handle that had been removed before, on
\* a slot that was Free and is on the free list
C21_Witness ==
    /\ last.op = "remove"
    /\ last.gen = None
    /\ InRange(last.index)
    /\ last.index \in removed
    /\ cells[last.index.index].tag = "Freed"
    /\ last.index.index \in FreeListSlots

\* C22: a call of insert or try_insert made on its own (growable or
\* fixed-capacity arena) keeps every slot there was, changes at most one of
\* them, which was Free before the call, or else appends at most one slot;
\* every slot that was Occupied keeps its value and its generation, so that
\* get returns for every handle that was valid before the call the value it
\* returned before
C22_InsertTouchesOnlyFreeSlot ==
    [][last'.op \in {"insert", "try_insert"} =>
        LET v == last'.val IN
        InsertCall(v) =>
            LET changed == {i \in DOMAIN cells : cells'[i] # cells[i]}
                added == DOMAIN cells' \ DOMAIN cells
            IN
            /\ DOMAIN cells \subseteq DOMAIN cells'
            /\ Cardinality(changed \cup added) <= 1
            /\ \A i \in changed :
                /\ cells[i].tag = "Freed"
                /\ last'.out.tag = "Ok" /\ last'.out.idx.index = i
            /\ \A i \in added :
                last'.out.tag = "Ok" /\ last'.out.idx.index = i
            /\ \A i \in DOMAIN cells :
                cells[i].tag = "Allocated" => cells'[i] = cells[i]
            /\ \A h \in Handles :
                Occupies(cells, h)
                    => /\ Occupies(cells', h)
                       /\ get(Self', h) = get(Self, h)]_vars

\* an insert claimed the Free slot 0 while slot 1 was Occupied, and slot 1
\* still holds its value under its generation
C22_Witness ==
    /\ last.op \in {"insert", "try_insert"}
    /\ last.out.tag = "Ok"
    /\ last.out.idx.index = 0
    /\ last.out.idx.generation > 0
    /\ Len(cells) = 2
    /\ cells[1].tag = "Allocated"
    /\ \E h \in issued \ removed : h.index = 1 /\ get(Self, h) # None

\* C23: get2_mut called with two handles of which at least one has an index
\* outside the storage (the first, the second or both, with the same or with
\* different indices) panics, as get and get_mut do, and returns no result
C23_Get2MutOutOfRangeFails ==
    [][last'.op = "get2_mut" /\ last'.written = {} =>
        LET i0 == last'.indices[1]
            i1 == last'.indices[2]
        IN
        /\ Get2MutCall(i0, i1)
        /\ ~InRange(i0) \/ ~InRange(i1)
        => /\ last'.out = Panic
           /\ panicked']_vars

\* the same for two handles that are both outside the storage, or that have
\* the same index
C23_Get2MutBothOutOfRangeFails ==
    [][last'.op = "get2_mut" /\ last'.written = {} =>
        LET i0 == last'.indices[1]
            i1 == last'.indices[2]
        IN
        /\ Get2MutCall(i0, i1)
        /\ ~InRange(i0) /\ ~InRange(i1)
        => /\ last'.out = Panic
           /\ panicked']_vars

\* C24: after every call (insert, try_insert, remove, clear, reserve) every
\* handle the arena has returned so far has an index inside the storage,
\* which never loses a slot; so get, get_mut and remove called with such a
\* handle, and get2_mut called with two different such handles, do not panic
C24_IssuedHandlesStayInRange ==
    [][/\ DOMAIN cells \subseteq DOMAIN cells'
       /\ \A h \in issued' : h.index \in DOMAIN cells'
       /\ last'.op \in {"get", "get_mut", "remove"} =>
            LET h == last'.index IN
            (h \in issued /\ (LookupCall(h) \/ RemoveCall(h))) => ~panicked'
       /\ last'.op = "get2_mut" /\ last'.written = {} =>
            LET i0 == last'.indices[1]
                i1 == last'.indices[2]
            IN
            (i0 \in issued /\ i1 \in issued /\ i0 # i1 /\ Get2MutCall(i0, i1))
                => ~panicked']_vars

\* reserve was called on an arena that has been cleared and has issued the
\* handles of both of its slots
C24_Witness ==
    /\ last.op = "reserve"
    /\ Len(cells) = 2
    /\ cleared # {}
    /\ \E h0 \in issued : \E h1 \in issued : h0.index = 0 /\ h1.index = 1

\* no slot of the container has been freed so far
AllFirstGeneration == \A i \in DOMAIN cells : cells[i].generation = 0

\* C25: a new SArena of capacity N >= 1 has N Free slots of generation 0,
\* slot i linked to slot i + 1 and the last to None, the head at slot 0 and
\* num() = 0; on an arena where nothing has been freed yet the k-th insert or
\* try_insert (k <= N) returns the handle of slot k - 1 with generation 0; and
\* in every reachable state num() <= capacity() = N, every issued handle has
\* an index below N, and capacity() and num() return these numbers
C25_FixedCapacityConstruction ==
    /\ (kind = "SArena" /\ Len(cells) >= 1) =>
        /\ \A i \in DOMAIN cells :
            cells[i] = Freed(IF i + 1 \in DOMAIN cells THEN Some(i + 1) ELSE None, 0)
        /\ freed = Some(0)
        /\ SArena_num(Self) = 0
    /\ [](kind = "SArena" /\ Len(cells) >= 1 =>
            /\ SArena_num(Self) <= SArena_capacity(Self)
            /\ \A h \in issued : h.index < SArena_capacity(Self)
            /\ last.op = "capacity" => last.out = Len(cells)
            /\ last.op = "num" => last.out = num)
    /\ [][\A v \in Vals :
            /\ SInsert(v) \/ STryInsert(v)
            /\ Len(cells) >= 1
            /\ AllFirstGeneration
            /\ num < Len(cells)
            => /\ last'.out = Ok(ArenaIdx(num, 0))
               /\ SArena_capacity(Self') = SArena_capacity(Self)]_vars

\* the second insert on a new SArena of capacity 2 returned the handle of
\* slot 1 with generation 0 and filled the arena
C25_Witness ==
    /\ kind = "SArena"
    /\ last.op \in {"insert", "try_insert"}
    /\ last.out = Ok(ArenaIdx(1, 0))
    /\ AllFirstGeneration
    /\ SArena_capacity(Self) = 2
    /\ SArena_num(Self) = 2

\* C26: a new SArena of capacity 0 has an empty free list (its head is None,
\* or at least not the index of a slot that does not exist), and try_insert
\* on it hands the value back as Err and does not panic, as on a full arena
C26_ZeroCapacity ==
    /\ (kind = "SArena" /\ Len(cells) = 0) =>
        \A i \in freed : i \in DOMAIN cells
    /\ [][\A v \in Vals :
            (STryInsert(v) /\ Len(cells) = 0)
                => /\ last'.out = Err(v)
                   /\ ~panicked'
                   /\ Self' = Self]_vars
====
